---- MODULE Spec2Model ----
(***************************************************************************)
(* FreeWill: the device tensor (Tensor.h), the cross-entropy cost kernel   *)
(* (Operator/CrossEntropy_CUDA.cu) and the numerical gradient check        *)
(* (GradientCheck.h), as state machines.                                   *)
(*                                                                         *)
(* Shape.h and ReferenceCountedBlob.h are not among the sources; Shape     *)
(* and the blob are modelled from the specification (sections 3 and 4.1).  *)
(***************************************************************************)
EXTENDS Integers, Sequences, FiniteSets, TLC

(***************************************************************************)
(* Bounds of the model.                                                    *)
(***************************************************************************)
MaxDims == 2
MaxExtent == 2
MaxElems == 2
MaxListLen == 3
\* the number of tensor operations a run makes
MaxOps == 3

\* sizeof(DataType) for the float instantiation
ElemSize == 4

\* The device the Tensor template is instantiated for (if constexpr branches).
DeviceUsed == "GPU_CUDA"
IsGPU == DeviceUsed = "GPU_CUDA"

Tensors == {"a", "b"}
Blocks == 1..Cardinality(Tensors)
NullHandle == 0

\* Element values a caller writes; Junk stands for indeterminate content
\* (memory as the allocator returned it, or a value read outside an array).
Values == {1, 2}
Junk == 0 - 1

VARIABLES
    alive,                  \* tensor object constructed and not yet destroyed
    m_shape,                \* TensorBase::m_shape
    m_name,                 \* Tensor::m_name
    m_data,                 \* TensorBase::m_data: handle of the shared block
    m_gpuTensorDescriptor,  \* TensorBase::m_gpuTensorDescriptor
    heap,                   \* the reference-counted blocks
    oob,                    \* an element access fell outside the allocated block
    linked,                 \* pairs of tensors made aliases by a copy or an assignment
    last,                   \* the last operation, its arguments and result
    nops                    \* the number of operations made so far

tvars == <<alive, m_shape, m_name, m_data, m_gpuTensorDescriptor, heap, oob, linked, last, nops>>

VARIABLES
    labelSize, batchSize,   \* the arguments of the call
    input, label, cost,     \* the three device arrays
    input0,                 \* the input array as the caller passed it
    cost0,                  \* the cost array as the call found it
    behind,                 \* what lies behind the cost array in device memory
    launched,               \* gridSize * blockSize work-items
    todo,                   \* work-items below labelSize*batchSize still to run
    nextExtra,              \* the next work-item at or beyond labelSize*batchSize
    oobRead, oobWrite,      \* a work-item read or wrote outside an array
    kpc                     \* "host", "zeroed", "running", "done", "fault"

kvars == <<labelSize, batchSize, input, label, cost, input0, cost0, behind, launched,
           todo, nextExtra, oobRead, oobWrite, kpc>>

VARIABLES
    dShape,                 \* the shape updateGPUTensorDescriptor runs on
    dI,                     \* the loop variable i
    dimA, strideA,          \* the two arrays
    dOutside,               \* an array index was outside [0, atLeastDims)
    dUnwritten,             \* a stride slot was read before it was written
    dpc                     \* "idle", "loop", "set"

dvars == <<dShape, dI, dimA, strideA, dOutside, dUnwritten, dpc>>

VARIABLES
    gFunc,                  \* the function under check
    gx,                     \* the point x
    gEps,                   \* epsilon
    gradientAtX,            \* the gradient func writes at x
    x_1, x_2,               \* the two perturbed points
    gi,                     \* the loop variable i
    gEval,                  \* the two points func was last evaluated at
    gResult,                \* the value returned
    gpc                     \* "idle", "start", "loop", "done"

gvars == <<gFunc, gx, gEps, gradientAtX, x_1, x_2, gi, gEval, gResult, gpc>>

vars == <<tvars, kvars, dvars, gvars>>


(***************************************************************************)
(* Shape (specification section 3).                                        *)
(***************************************************************************)
RECURSIVE SeqsUpTo(_, _)
SeqsUpTo(S, n) ==
    IF n = 0 THEN {<<>>}
    ELSE LET shorter == SeqsUpTo(S, n - 1)
         IN  shorter \cup {Append(q, x) : q \in {r \in shorter : Len(r) = n - 1}, x \in S}

RECURSIVE Product(_)
Product(s) == IF s = <<>> THEN 1 ELSE Head(s) * Product(Tail(s))

\* Shape::size(): product of the extents, 0 for the empty sequence
ShapeSize(s) == IF s = <<>> THEN 0 ELSE Product(s)

\* Shape::dimension()
ShapeDimension(s) == Len(s)

\* the shapes tensors are given: the default empty shape, a zero extent, and
\* the shapes of positive extents holding at most MaxElems elements
Shapes == {<<>>, <<0>>} \cup
          {s \in SeqsUpTo(1..MaxExtent, MaxDims) : s # <<>> /\ ShapeSize(s) <= MaxElems}

\* the literal lists init is given: 1, 2, 1, 2, ... cut at every length
InitLists == {[k \in 1..n |-> IF k % 2 = 1 THEN 1 ELSE 2] : n \in 0..MaxListLen}

(***************************************************************************)
(* updateGPUTensorDescriptor (Tensor.h).  Arrays keep the source's 0-based *)
(* indices.                                                                *)
(***************************************************************************)
AtLeastDims(shape) == IF ShapeDimension(shape) < 4 THEN 4 ELSE ShapeDimension(shape)

\* m_shape[i]
Extent(shape, i) == shape[i + 1]

\* a read of strideA[k]: outside the array the value is indeterminate
ReadStride(strides, k) == IF k \in DOMAIN strides THEN strides[k] ELSE Junk

Mul(x, y) == IF x = Junk \/ y = Junk THEN Junk ELSE x * y

\* new int[atLeastDims]: indeterminate content
NewArray(m) == [k \in 0..(m - 1) |-> Junk]

\* the stride written for a real dimension i
RealStrideMutant(shape, i, strides) ==
    IF i = 0 THEN 1
    ELSE Mul(Extent(shape, i), ReadStride(strides, AtLeastDims(shape) - i))

RealStride(shape, i, strides) ==
    IF i = 0 THEN 1
    ELSE Mul(Extent(shape, i - 1), ReadStride(strides, AtLeastDims(shape) - i))

\* one iteration of the loop over i
DescStep(shape, i, arrs) ==
    LET nbDims == ShapeDimension(shape)
        m == AtLeastDims(shape)
    IN  IF i < nbDims
        THEN [dimA |-> [arrs.dimA EXCEPT ![m - i - 1] = Extent(shape, i)],
              strideA |-> [arrs.strideA EXCEPT ![m - 1 - i] = RealStride(shape, i, arrs.strideA)]]
        ELSE [dimA |-> [arrs.dimA EXCEPT ![m - i - 1] = 1],
              strideA |-> [arrs.strideA EXCEPT ![m - 1 - i] = ReadStride(arrs.strideA, m - i)]]

RECURSIVE DescLoop(_, _, _)
DescLoop(shape, i, arrs) ==
    IF i >= AtLeastDims(shape) THEN arrs
    ELSE DescLoop(shape, i + 1, DescStep(shape, i, arrs))

\* the descriptor cudnnCreateTensorDescriptor returns: nothing set yet
CreatedDescriptor == [nbDims |-> 0, dimA |-> NewArray(0), strideA |-> NewArray(0)]

\* the descriptor cudnnSetTensorNdDescriptor is given for a shape
ComputedDescriptor(shape) ==
    LET m == AtLeastDims(shape)
        arrs == DescLoop(shape, 0, [dimA |-> NewArray(m), strideA |-> NewArray(m)])
    IN  [nbDims |-> m, dimA |-> arrs.dimA, strideA |-> arrs.strideA]

\* updateGPUTensorDescriptor(): the descriptor after the call, given the one before
UpdateGPUTensorDescriptor(shape, old) ==
    IF IsGPU THEN ComputedDescriptor(shape) ELSE old

(***************************************************************************)
(* ReferenceCountedBlob (specification sections 3 and 4.1): a handle to a  *)
(* block that counts its owners and holds a host and a device mirror.      *)
(***************************************************************************)
FreeBlock == [refs |-> 0, size |-> 0, host |-> <<>>, gpu |-> <<>>]

JunkSeq(n) == [k \in 1..n |-> Junk]

FreeBlocks(h) == {b \in Blocks : h[b].refs = 0}

\* the blob gives up its reference; the last owner releases the storage
BlobRelease(h, hd) ==
    IF hd = NullHandle THEN h
    ELSE IF h[hd].refs <= 1 THEN [h EXCEPT ![hd] = FreeBlock]
    ELSE [h EXCEPT ![hd].refs = @ - 1]

\* copy-construction of a blob: one more owner of the same storage
BlobShare(h, hd) ==
    IF hd = NullHandle THEN h ELSE [h EXCEPT ![hd].refs = @ + 1]

\* alloc(n): releases the prior storage, then all-or-nothing
BlobAlloc(h, hd, n, allocOk) ==
    LET h1 == BlobRelease(h, hd)
    IN  IF n = 0 THEN [heap |-> h, data |-> hd, result |-> FALSE]
        ELSE IF allocOk /\ FreeBlocks(h1) # {}
        THEN LET b == CHOOSE x \in FreeBlocks(h1) : \A y \in FreeBlocks(h1) : x <= y
                 len == n \div ElemSize
             IN  [heap |-> [h1 EXCEPT ![b] = [refs |-> 1, size |-> n,
                                              host |-> JunkSeq(len),
                                              gpu |-> IF IsGPU THEN JunkSeq(len) ELSE <<>>]],
                  data |-> b, result |-> TRUE]
        ELSE [heap |-> h1, data |-> NullHandle, result |-> FALSE]

\* operator= of a blob: gives up its own storage and aliases the source's
BlobAssign(h, dst, src) == BlobShare(BlobRelease(h, dst), src)

\* sizeInByte()
SizeInByte(t) == IF m_data[t] = NullHandle THEN 0 ELSE heap[m_data[t]].size

\* copyFromHostToDevice() / copyFromDeviceToHost() on a block
PushBlock(blk) == IF IsGPU THEN [blk EXCEPT !.gpu = blk.host] ELSE blk
PullBlock(blk) == IF IsGPU THEN [blk EXCEPT !.host = blk.gpu] ELSE blk

(***************************************************************************)
(* Tensor (Tensor.h)                                                       *)
(***************************************************************************)
NoOp == [op |-> "none", t |-> "a", ret |-> FALSE, src |-> "a", shape |-> <<>>,
         list |-> <<>>, idx |-> 0, val |-> 0, allocOk |-> FALSE,
         preShape |-> <<>>, retry |-> FALSE, preRefs |-> 0]

\* the aliases recorded for t are forgotten when t takes or drops storage
Unlink(t) == {pr \in linked : t \notin pr}

\* t was made an alias of in, a tensor that holds storage
Link(t, in) == IF m_data[in] # NullHandle THEN Unlink(t) \cup {{t, in}} ELSE Unlink(t)

\* the owners of the block of t before it lets go of it
OwnersOf(t) == IF m_data[t] = NullHandle THEN 0 ELSE heap[m_data[t]].refs

\* every operation counts against the budget of the run
Tick == nops < MaxOps /\ nops' = nops + 1

\* One tensor has been constructed, with any shape; the other is either not
\* there yet or default-constructed (Shape(), no storage).
TensorInit ==
    /\ \E both \in BOOLEAN :
          /\ alive = [t \in Tensors |-> t = "a" \/ both]
          /\ m_name = [t \in Tensors |-> IF t = "a" \/ both THEN t ELSE "no_name"]
    /\ \E shape \in Shapes : m_shape = [t \in Tensors |-> IF t = "a" THEN shape ELSE <<>>]
    /\ m_data = [t \in Tensors |-> NullHandle]
    /\ m_gpuTensorDescriptor = [t \in Tensors |-> CreatedDescriptor]
    /\ heap = [b \in Blocks |-> FreeBlock]
    /\ oob = FALSE
    /\ linked = {}
    /\ last = NoOp
    /\ nops = 0

\* Tensor(const Shape &shape, const std::string &name)
Construct(t, shape) ==
    /\ Tick
    /\ UNCHANGED <<kvars, dvars, gvars>>
    /\ ~alive[t]
    /\ alive' = [alive EXCEPT ![t] = TRUE]
    /\ m_shape' = [m_shape EXCEPT ![t] = shape]
    /\ m_name' = [m_name EXCEPT ![t] = t]
    /\ m_data' = [m_data EXCEPT ![t] = NullHandle]
    /\ m_gpuTensorDescriptor' = [m_gpuTensorDescriptor EXCEPT ![t] = CreatedDescriptor]
    /\ last' = [NoOp EXCEPT !.op = "construct", !.t = t, !.shape = shape]
    /\ UNCHANGED <<heap, oob, linked>>

\* a copy constructor that duplicates the bytes into storage of its own
CopyConstructDeep(t, in) ==
    /\ Tick
    /\ UNCHANGED <<kvars, dvars, gvars>>
    /\ ~alive[t]
    /\ alive[in]
    /\ alive' = [alive EXCEPT ![t] = TRUE]
    /\ m_shape' = [m_shape EXCEPT ![t] = m_shape[in]]
    /\ m_name' = [m_name EXCEPT ![t] = m_name[in]]
    /\ IF m_data[in] = NullHandle \/ FreeBlocks(heap) = {}
       THEN /\ m_data' = [m_data EXCEPT ![t] = NullHandle]
            /\ heap' = heap
       ELSE LET b == CHOOSE x \in FreeBlocks(heap) : TRUE
            IN  /\ m_data' = [m_data EXCEPT ![t] = b]
                /\ heap' = [heap EXCEPT ![b] = [heap[m_data[in]] EXCEPT !.refs = 1]]
    /\ m_gpuTensorDescriptor' = [m_gpuTensorDescriptor EXCEPT ![t] = CreatedDescriptor]
    /\ linked' = Link(t, in)
    /\ last' = [NoOp EXCEPT !.op = "copy", !.t = t, !.src = in]
    /\ UNCHANGED oob

\* a copy constructor that takes the handle without becoming an owner
CopyConstructNoRef(t, in) ==
    /\ Tick
    /\ UNCHANGED <<kvars, dvars, gvars>>
    /\ ~alive[t]
    /\ alive[in]
    /\ alive' = [alive EXCEPT ![t] = TRUE]
    /\ m_shape' = [m_shape EXCEPT ![t] = m_shape[in]]
    /\ m_name' = [m_name EXCEPT ![t] = m_name[in]]
    /\ m_data' = [m_data EXCEPT ![t] = m_data[in]]
    /\ heap' = heap
    /\ m_gpuTensorDescriptor' = [m_gpuTensorDescriptor EXCEPT ![t] = CreatedDescriptor]
    /\ linked' = Link(t, in)
    /\ last' = [NoOp EXCEPT !.op = "copy", !.t = t, !.src = in]
    /\ UNCHANGED oob

\* Tensor(const Tensor &in): TensorBase(in.m_data, in.shape()), m_name(in.m_name)
CopyConstruct(t, in) ==
    /\ Tick
    /\ UNCHANGED <<kvars, dvars, gvars>>
    /\ ~alive[t]
    /\ alive[in]
    /\ alive' = [alive EXCEPT ![t] = TRUE]
    /\ m_shape' = [m_shape EXCEPT ![t] = m_shape[in]]
    /\ m_name' = [m_name EXCEPT ![t] = m_name[in]]
    /\ m_data' = [m_data EXCEPT ![t] = m_data[in]]
    /\ heap' = BlobShare(heap, m_data[in])
    /\ m_gpuTensorDescriptor' = [m_gpuTensorDescriptor EXCEPT ![t] = CreatedDescriptor]
    /\ linked' = Link(t, in)
    /\ last' = [NoOp EXCEPT !.op = "copy", !.t = t, !.src = in]
    /\ UNCHANGED oob

\* ~TensorBase(), then the destructor of m_data
Destroy(t) ==
    /\ Tick
    /\ UNCHANGED <<kvars, dvars, gvars>>
    /\ alive[t]
    /\ alive' = [alive EXCEPT ![t] = FALSE]
    /\ heap' = BlobRelease(heap, m_data[t])
    /\ m_data' = [m_data EXCEPT ![t] = NullHandle]
    /\ m_shape' = [m_shape EXCEPT ![t] = <<>>]
    /\ m_name' = [m_name EXCEPT ![t] = "no_name"]
    /\ m_gpuTensorDescriptor' = [m_gpuTensorDescriptor EXCEPT ![t] = CreatedDescriptor]
    /\ linked' = Unlink(t)
    /\ last' = [NoOp EXCEPT !.op = "destroy", !.t = t, !.preRefs = OwnersOf(t)]
    /\ UNCHANGED oob

\* an init() that asks for one byte for each element
InitEffectShort(t, allocOk) ==
    LET size == ShapeSize(m_shape[t])
        r == IF size # 0
             THEN BlobAlloc(heap, m_data[t], size, allocOk)
             ELSE [heap |-> heap, data |-> m_data[t], result |-> FALSE]
    IN  [heap |-> r.heap, data |-> r.data, result |-> r.result,
         desc |-> UpdateGPUTensorDescriptor(m_shape[t], m_gpuTensorDescriptor[t])]

\* bool init(): what it leaves behind and what it returns
InitEffect(t, allocOk) ==
    LET size == ShapeSize(m_shape[t])
        r == IF size # 0
             THEN BlobAlloc(heap, m_data[t], size * ElemSize, allocOk)
             ELSE [heap |-> heap, data |-> m_data[t], result |-> FALSE]
    IN  [heap |-> r.heap, data |-> r.data, result |-> r.result,
         desc |-> UpdateGPUTensorDescriptor(m_shape[t], m_gpuTensorDescriptor[t])]

Init(t, allocOk) ==
    /\ Tick
    /\ UNCHANGED <<kvars, dvars, gvars>>
    /\ alive[t]
    /\ LET r == InitEffect(t, allocOk)
       IN  /\ heap' = r.heap
           /\ m_data' = [m_data EXCEPT ![t] = r.data]
           /\ m_gpuTensorDescriptor' = [m_gpuTensorDescriptor EXCEPT ![t] = r.desc]
           /\ last' = [NoOp EXCEPT !.op = "init", !.t = t, !.ret = r.result,
                                   !.allocOk = allocOk]
    /\ linked' = Unlink(t)
    /\ UNCHANGED <<alive, m_shape, m_name, oob>>

Min(x, y) == IF x < y THEN x ELSE y

\* std::copy(initList.begin(), initList.begin() + n, dataHandle): n elements from index 0
CopyList(host, initList, n) ==
    [k \in 1..Len(host) |-> IF k <= n THEN initList[k] ELSE host[k]]

\* the number of elements init(initList) copies
CopyCountMutant(initList, size) == Len(initList)

CopyCount(initList, size) == IF Len(initList) > size THEN size ELSE Len(initList)

\* if (!init()) return false;
InitFailedMutant(r) == FALSE

InitFailed(r) == ~r.result

\* bool init(const std::initializer_list<DataType> &initList)
InitList(t, allocOk, initList) ==
    /\ Tick
    /\ UNCHANGED <<kvars, dvars, gvars>>
    /\ alive[t]
    /\ LET r == InitEffect(t, allocOk)
           size == ShapeSize(m_shape[t])
           n == CopyCount(initList, size)
           lst == [NoOp EXCEPT !.op = "initList", !.t = t, !.allocOk = allocOk,
                               !.list = initList]
       IN  IF InitFailed(r)
           THEN /\ heap' = r.heap
                /\ m_data' = [m_data EXCEPT ![t] = r.data]
                /\ m_gpuTensorDescriptor' = [m_gpuTensorDescriptor EXCEPT ![t] = r.desc]
                /\ oob' = oob
                /\ last' = [lst EXCEPT !.ret = FALSE]
           ELSE LET hostLen == IF r.data = NullHandle THEN 0 ELSE Len(r.heap[r.data].host)
                    copied == [r.heap EXCEPT ![r.data].host = CopyList(@, initList, Min(n, hostLen))]
                IN  /\ heap' = IF r.data = NullHandle THEN r.heap
                               ELSE [copied EXCEPT ![r.data] = PushBlock(@)]
                    /\ m_data' = [m_data EXCEPT ![t] = r.data]
                    /\ m_gpuTensorDescriptor' =
                         [m_gpuTensorDescriptor EXCEPT ![t] = UpdateGPUTensorDescriptor(m_shape[t], r.desc)]
                    /\ oob' = (oob \/ n > hostLen)
                    /\ last' = [lst EXCEPT !.ret = TRUE]
    /\ linked' = Unlink(t)
    /\ UNCHANGED <<alive, m_shape, m_name>>

\* void randomize(): bits[n] = getRandom() for n < m_shape.size(), then the push
\* a randomize that fills the host mirror and pushes nothing
RandomizeNoPush(t, rnd) ==
    /\ Tick
    /\ UNCHANGED <<kvars, dvars, gvars>>
    /\ alive[t]
    /\ m_data[t] # NullHandle
    /\ LET size == ShapeSize(m_shape[t])
           blk == heap[m_data[t]]
           filled == [blk EXCEPT !.host = [k \in 1..Len(blk.host) |->
                                              IF k <= size THEN rnd[k] ELSE blk.host[k]]]
       IN  /\ heap' = [heap EXCEPT ![m_data[t]] = filled]
           /\ oob' = (oob \/ size > Len(blk.host))
    /\ last' = [NoOp EXCEPT !.op = "randomize", !.t = t]
    /\ UNCHANGED <<alive, m_shape, m_name, m_data, m_gpuTensorDescriptor, linked>>

Randomize(t, rnd) ==
    /\ Tick
    /\ UNCHANGED <<kvars, dvars, gvars>>
    /\ alive[t]
    /\ m_data[t] # NullHandle
    /\ LET size == ShapeSize(m_shape[t])
           blk == heap[m_data[t]]
           filled == [blk EXCEPT !.host = [k \in 1..Len(blk.host) |->
                                              IF k <= size THEN rnd[k] ELSE blk.host[k]]]
       IN  /\ heap' = [heap EXCEPT ![m_data[t]] = PushBlock(filled)]
           /\ oob' = (oob \/ size > Len(blk.host))
    /\ last' = [NoOp EXCEPT !.op = "randomize", !.t = t]
    /\ UNCHANGED <<alive, m_shape, m_name, m_data, m_gpuTensorDescriptor, linked>>

\* m_data = in.m_data
AssignedData(h, dst, src) == BlobAssign(h, dst, src)

\* void operator=(const Tensor &in)
Assign(t, in) ==
    /\ Tick
    /\ UNCHANGED <<kvars, dvars, gvars>>
    /\ alive[t]
    /\ alive[in]
    /\ t # in
    /\ m_shape' = [m_shape EXCEPT ![t] = m_shape[in]]
    /\ m_name' = [m_name EXCEPT ![t] = m_name[in]]
    /\ heap' = AssignedData(heap, m_data[t], m_data[in])
    /\ m_data' = [m_data EXCEPT ![t] = m_data[in]]
    /\ m_gpuTensorDescriptor' =
         [m_gpuTensorDescriptor EXCEPT ![t] = UpdateGPUTensorDescriptor(m_shape[in], @)]
    /\ linked' = Link(t, in)
    /\ last' = [NoOp EXCEPT !.op = "assign", !.t = t, !.src = in, !.preRefs = OwnersOf(t)]
    /\ UNCHANGED <<alive, oob>>

\* DataType &operator[](unsigned int i), read through
Read(t, i) == heap[m_data[t]].host[i + 1]

\* DataType &operator[](unsigned int i), written through: t[i] = v
Write(t, i, v) ==
    /\ Tick
    /\ UNCHANGED <<kvars, dvars, gvars>>
    /\ alive[t]
    /\ m_data[t] # NullHandle
    /\ i < ShapeSize(m_shape[t])
    /\ LET blk == heap[m_data[t]]
       IN  /\ heap' = IF i < Len(blk.host)
                      THEN [heap EXCEPT ![m_data[t]].host[i + 1] = v]
                      ELSE heap
           /\ oob' = (oob \/ i >= Len(blk.host))
    /\ last' = [NoOp EXCEPT !.op = "write", !.t = t, !.idx = i, !.val = v]
    /\ UNCHANGED <<alive, m_shape, m_name, m_data, m_gpuTensorDescriptor, linked>>

\* if (newShape.size() == m_shape.size())
SameSizeMutant(newShape, shape) == ShapeDimension(newShape) = ShapeDimension(shape)

SameSize(newShape, shape) == ShapeSize(newShape) = ShapeSize(shape)

\* a reshape whose new shape is taken by every tensor sharing the buffer
ReshapeShared(t, newShape) ==
    /\ Tick
    /\ UNCHANGED <<kvars, dvars, gvars>>
    /\ alive[t]
    /\ LET lst == [NoOp EXCEPT !.op = "reshape", !.t = t, !.shape = newShape,
                               !.preShape = m_shape[t],
                               !.retry = (last.op = "reshape" /\ last.t = t /\ ~last.ret)]
           sharing == {y \in Tensors : y = t \/ (m_data[t] # NullHandle /\ m_data[y] = m_data[t])}
       IN  IF SameSize(newShape, m_shape[t])
           THEN /\ m_shape' = [y \in Tensors |-> IF y \in sharing THEN newShape ELSE m_shape[y]]
                /\ m_gpuTensorDescriptor' =
                     [m_gpuTensorDescriptor EXCEPT ![t] = UpdateGPUTensorDescriptor(newShape, @)]
                /\ last' = [lst EXCEPT !.ret = TRUE]
           ELSE /\ UNCHANGED <<m_shape, m_gpuTensorDescriptor>>
                /\ last' = [lst EXCEPT !.ret = FALSE]
    /\ UNCHANGED <<alive, m_name, m_data, heap, oob, linked>>

\* bool reshape(const Shape &newShape)
Reshape(t, newShape) ==
    /\ Tick
    /\ UNCHANGED <<kvars, dvars, gvars>>
    /\ alive[t]
    /\ LET lst == [NoOp EXCEPT !.op = "reshape", !.t = t, !.shape = newShape,
                               !.preShape = m_shape[t],
                               !.retry = (last.op = "reshape" /\ last.t = t /\ ~last.ret)]
       IN  IF SameSize(newShape, m_shape[t])
           THEN /\ m_shape' = [m_shape EXCEPT ![t] = newShape]
                /\ m_gpuTensorDescriptor' =
                     [m_gpuTensorDescriptor EXCEPT ![t] = UpdateGPUTensorDescriptor(newShape, @)]
                /\ last' = [lst EXCEPT !.ret = TRUE]
           ELSE /\ UNCHANGED <<m_shape, m_gpuTensorDescriptor>>
                /\ last' = [lst EXCEPT !.ret = FALSE]
    /\ UNCHANGED <<alive, m_name, m_data, heap, oob, linked>>

\* void clear(): m_data.clear()
Clear(t) ==
    /\ Tick
    /\ UNCHANGED <<kvars, dvars, gvars>>
    /\ alive[t]
    /\ heap' = BlobRelease(heap, m_data[t])
    /\ m_data' = [m_data EXCEPT ![t] = NullHandle]
    /\ linked' = Unlink(t)
    /\ last' = [NoOp EXCEPT !.op = "clear", !.t = t, !.preRefs = OwnersOf(t)]
    /\ UNCHANGED <<alive, m_shape, m_name, m_gpuTensorDescriptor, oob>>

\* void copyFromHostToDevice()
CopyFromHostToDevice(t) ==
    /\ Tick
    /\ UNCHANGED <<kvars, dvars, gvars>>
    /\ alive[t]
    /\ m_data[t] # NullHandle
    /\ heap' = [heap EXCEPT ![m_data[t]] = PushBlock(@)]
    /\ last' = [NoOp EXCEPT !.op = "push", !.t = t]
    /\ UNCHANGED <<alive, m_shape, m_name, m_data, m_gpuTensorDescriptor, oob, linked>>

\* void copyFromDeviceToHost()
CopyFromDeviceToHost(t) ==
    /\ Tick
    /\ UNCHANGED <<kvars, dvars, gvars>>
    /\ alive[t]
    /\ m_data[t] # NullHandle
    /\ heap' = [heap EXCEPT ![m_data[t]] = PullBlock(@)]
    /\ last' = [NoOp EXCEPT !.op = "pull", !.t = t]
    /\ UNCHANGED <<alive, m_shape, m_name, m_data, m_gpuTensorDescriptor, oob, linked>>

TensorNext ==
    \/ \E t \in Tensors, shape \in Shapes : Construct(t, shape)
    \/ \E t \in Tensors, in \in Tensors : CopyConstruct(t, in)
    \/ \E t \in Tensors : Destroy(t)
    \/ \E t \in Tensors, allocOk \in BOOLEAN : Init(t, allocOk)
    \/ \E t \in Tensors, allocOk \in BOOLEAN, initList \in InitLists : InitList(t, allocOk, initList)
    \/ \E t \in Tensors : \E rnd \in [1..ShapeSize(m_shape[t]) -> Values] : Randomize(t, rnd)
    \/ \E t \in Tensors, in \in Tensors : Assign(t, in)
    \/ \E t \in Tensors, i \in 0..(MaxElems - 1), v \in Values : Write(t, i, v)
    \/ \E t \in Tensors, newShape \in Shapes : Reshape(t, newShape)
    \/ \E t \in Tensors : Clear(t)
    \/ \E t \in Tensors : CopyFromHostToDevice(t)
    \/ \E t \in Tensors : CopyFromDeviceToHost(t)

(***************************************************************************)
(* crossEntropyCUDAKernel and the crossEntropy kernel                      *)
(* (Operator/CrossEntropy_CUDA.cu).  Terms are in thousandths; inputs are  *)
(* in tenths.                                                              *)
(***************************************************************************)
MaxLabelSize == 2
MaxBatchSize == 2

\* int blockSize = 1024;
BlockSize == 1024

\* -log(x) for x in tenths, in thousandths
NegLog(x) ==
    CASE x = 1 -> 2303
      [] x = 5 -> 693
      [] x = 9 -> 105

\* -label*log(input) - (1.0 - label)*log(1.0 - input)
Term(l, x) ==
    IF l = Junk \/ x = Junk THEN Junk
    ELSE l * NegLog(x) + (1 - l) * NegLog(10 - x)

Add(x, y) == IF x = Junk \/ y = Junk THEN Junk ELSE x + y

\* the input array of the call: 0.5, 0.9, 0.1, 0.5, ... from a chosen start
InputPattern(total, k) ==
    [p \in 0..(total - 1) |-> CASE (p + k) % 3 = 0 -> 5
                                [] (p + k) % 3 = 1 -> 9
                                [] (p + k) % 3 = 2 -> 1]

\* the label array of the call: alternating 0 and 1 from a chosen start
LabelPattern(total, k) == [p \in 0..(total - 1) |-> (p + k) % 2]

\* the cost array as the caller passes it: any earlier content
PriorCost == {0, 7}

KernelInit ==
    /\ labelSize \in 1..MaxLabelSize
    /\ batchSize \in 1..MaxBatchSize
    /\ \E k \in 0..1 : /\ input = InputPattern(labelSize * batchSize, k)
                       /\ label = LabelPattern(labelSize * batchSize, k)
    /\ input0 = input
    /\ \E c \in PriorCost : cost = [b \in 0..(batchSize - 1) |-> c]
    /\ cost0 = cost
    /\ behind \in {"unmapped", "slack", "input"}
    /\ launched = 0
    /\ todo = {}
    /\ nextExtra = 0
    /\ oobRead = FALSE
    /\ oobWrite = FALSE
    /\ kpc = "host"

\* int gridSize = (labelSize * batchSize) / blockSize, one more for a remainder
GridSize(total) ==
    IF total % BlockSize # 0 THEN (total \div BlockSize) + 1 ELSE total \div BlockSize

\* a call that launches the kernel on the cost array as it finds it
MemsetMutant ==
    /\ UNCHANGED <<tvars, dvars, gvars>>
    /\ kpc = "host"
    /\ cost' = cost
    /\ kpc' = "zeroed"
    /\ UNCHANGED <<labelSize, batchSize, input, label, input0, cost0, behind, launched,
                   todo, nextExtra, oobRead, oobWrite>>

\* cudaMemset(cost, 0, sizeof(DataType) * batchSize)
Memset ==
    /\ UNCHANGED <<tvars, dvars, gvars>>
    /\ kpc = "host"
    /\ cost' = [b \in 0..(batchSize - 1) |-> 0]
    /\ kpc' = "zeroed"
    /\ UNCHANGED <<labelSize, batchSize, input, label, input0, cost0, behind, launched,
                   todo, nextExtra, oobRead, oobWrite>>

\* crossEntropy<<<gridSize, blockSize>>>(input, label, cost, labelSize, batchSize)
Launch ==
    /\ UNCHANGED <<tvars, dvars, gvars>>
    /\ kpc = "zeroed"
    /\ LET total == labelSize * batchSize
           n == GridSize(total) * BlockSize
       IN  /\ launched' = n
           /\ todo' = {id \in 0..(total - 1) : id < n}
           /\ nextExtra' = total
    /\ kpc' = "running"
    /\ UNCHANGED <<labelSize, batchSize, input, label, cost, input0, cost0, behind,
                   oobRead, oobWrite>>

\* the work-items that have not run yet; those beyond the data run in id order
Pending(id) == id \in todo \/ (id = nextExtra /\ id < launched)

\* atomicAdd(cost + batchId, temp)
AtomicAdd(c, batchId, temp) == [c EXCEPT ![batchId] = Add(@, temp)]

\* the crossEntropy kernel, run by the work-item id
WorkItem(id) ==
    /\ UNCHANGED <<tvars, dvars, gvars>>
    /\ kpc = "running"
    /\ Pending(id)
    /\ LET total == labelSize * batchSize
           idInVector == id % labelSize
           batchId == id \div labelSize
           p == batchId * labelSize + idInVector
           inside == p < total
           temp == Term(IF inside THEN label[p] ELSE Junk,
                        IF inside THEN input[p] ELSE Junk)
           slot == batchId - batchSize
       IN  /\ oobRead' = (oobRead \/ ~inside)
           /\ oobWrite' = (oobWrite \/ batchId >= batchSize)
           /\ IF batchId < batchSize
              THEN /\ cost' = AtomicAdd(cost, batchId, temp)
                   /\ UNCHANGED <<input, kpc>>
              ELSE \* a write outside the cost array: a fault, a write into
                   \* unused memory, or a write into the array that lies there
                   /\ cost' = cost
                   /\ kpc' = IF behind = "unmapped" THEN "fault" ELSE kpc
                   /\ input' = IF behind = "input" /\ slot < total
                               THEN [input EXCEPT ![slot] = Add(@, temp)]
                               ELSE input
    /\ todo' = todo \ {id}
    /\ nextExtra' = IF id = nextExtra THEN nextExtra + 1 ELSE nextExtra
    /\ UNCHANGED <<labelSize, batchSize, label, input0, cost0, behind, launched>>

\* every work-item has finished: the kernel call is complete
Finish ==
    /\ UNCHANGED <<tvars, dvars, gvars>>
    /\ kpc = "running"
    /\ todo = {}
    /\ nextExtra >= launched
    /\ kpc' = "done"
    /\ UNCHANGED <<labelSize, batchSize, input, label, cost, input0, cost0, behind, launched,
                   todo, nextExtra, oobRead, oobWrite>>

\* the caller calls crossEntropyCUDAKernel again, on the same three arrays
Reinvoke ==
    /\ UNCHANGED <<tvars, dvars, gvars>>
    /\ kpc = "done"
    /\ cost0' = cost
    /\ launched' = 0
    /\ todo' = {}
    /\ nextExtra' = 0
    /\ kpc' = "host"
    /\ UNCHANGED <<labelSize, batchSize, input, label, cost, input0, behind,
                   oobRead, oobWrite>>

KernelIdle ==
    /\ labelSize = 1 /\ batchSize = 1
    /\ input = <<>> /\ label = <<>> /\ cost = <<>> /\ input0 = <<>> /\ cost0 = <<>>
    /\ behind = "slack"
    /\ launched = 0 /\ todo = {} /\ nextExtra = 0
    /\ oobRead = FALSE /\ oobWrite = FALSE
    /\ kpc = "idle"

TensorIdle ==
    /\ alive = [t \in Tensors |-> FALSE]
    /\ m_shape = [t \in Tensors |-> <<>>]
    /\ m_name = [t \in Tensors |-> "no_name"]
    /\ m_data = [t \in Tensors |-> NullHandle]
    /\ m_gpuTensorDescriptor = [t \in Tensors |-> CreatedDescriptor]
    /\ heap = [b \in Blocks |-> FreeBlock]
    /\ oob = FALSE
    /\ linked = {}
    /\ last = NoOp
    /\ nops = 0

KernelNext ==
    \/ Memset
    \/ Launch
    \/ \E id \in todo \cup {nextExtra} : WorkItem(id)
    \/ Finish
    \/ Reinvoke

(***************************************************************************)
(* updateGPUTensorDescriptor, one loop iteration at a time                 *)
(***************************************************************************)
MaxDescDims == 5
MaxDescExtent == 2

DescShapes == SeqsUpTo(0..MaxDescExtent, MaxDescDims)

DescIdle ==
    /\ dShape = <<>> /\ dI = 0
    /\ dimA = NewArray(0) /\ strideA = NewArray(0)
    /\ dOutside = FALSE /\ dUnwritten = FALSE
    /\ dpc = "idle"

\* int *dimA = new int[atLeastDims]; int *strideA = new int[atLeastDims]; i = 0
DescInit ==
    /\ dShape \in DescShapes
    /\ dI = 0
    /\ dimA = NewArray(AtLeastDims(dShape))
    /\ strideA = NewArray(AtLeastDims(dShape))
    /\ dOutside = FALSE
    /\ dUnwritten = FALSE
    /\ dpc = "loop"

\* the body of for(int i = 0; i < atLeastDims; ++i)
DescIterate ==
    /\ UNCHANGED <<tvars, kvars, gvars>>
    /\ dpc = "loop"
    /\ dI < AtLeastDims(dShape)
    /\ LET m == AtLeastDims(dShape)
           arrs == DescStep(dShape, dI, [dimA |-> dimA, strideA |-> strideA])
           readsStride == dI >= ShapeDimension(dShape) \/ dI # 0
           written == {k \in 0..(m - 1) : k >= m - dI}
       IN  /\ dimA' = arrs.dimA
           /\ strideA' = arrs.strideA
           /\ dOutside' = (dOutside \/ (m - dI - 1) \notin 0..(m - 1)
                                    \/ (readsStride /\ (m - dI) \notin 0..(m - 1)))
           /\ dUnwritten' = (dUnwritten \/ (readsStride /\ (m - dI) \in 0..(m - 1)
                                                        /\ (m - dI) \notin written))
    /\ dI' = dI + 1
    /\ UNCHANGED <<dShape, dpc>>

\* cudnnSetTensorNdDescriptor(m_gpuTensorDescriptor, dataType, atLeastDims, dimA, strideA)
DescSet ==
    /\ UNCHANGED <<tvars, kvars, gvars>>
    /\ dpc = "loop"
    /\ dI >= AtLeastDims(dShape)
    /\ dpc' = "set"
    /\ UNCHANGED <<dShape, dI, dimA, strideA, dOutside, dUnwritten>>

DescNext ==
    \/ DescIterate
    \/ DescSet

(***************************************************************************)
(* gradientCheck (GradientCheck.h).  Scalars are counted in 1/Scale; the   *)
(* values of func in 1/Scale^2.                                            *)
(***************************************************************************)
Scale == 100
MaxPointLen == 2

\* the functions under check: the sum of the squares of the coordinates, with
\* its gradient 2x, with the gradient x, and with the gradient -2x
Funcs == {"square", "wrongGradient", "oppositeGradient"}

Coords == {0 - Scale, 0, Scale \div 2, Scale, 3 * Scale}
Points == {pt \in SeqsUpTo(Coords, MaxPointLen) : pt # <<>>}
Epsilons == {1, 10}

RECURSIVE SumSquares(_)
SumSquares(pt) == IF pt = <<>> THEN 0 ELSE Head(pt) * Head(pt) + SumSquares(Tail(pt))

\* the value func returns at pt
FuncValue(f, pt) == SumSquares(pt)

\* the gradient func writes at pt
FuncGradient(f, pt) ==
    [k \in 1..Len(pt) |-> CASE f = "square" -> 2 * pt[k]
                            [] f = "wrongGradient" -> pt[k]
                            [] f = "oppositeGradient" -> 0 - 2 * pt[k]]

GradIdle ==
    /\ gFunc = "square" /\ gx = <<>> /\ gEps = 1
    /\ gradientAtX = <<>> /\ x_1 = <<>> /\ x_2 = <<>>
    /\ gi = 0 /\ gEval = <<>> /\ gResult = FALSE
    /\ gpc = "idle"

GradInit ==
    /\ gFunc \in Funcs
    /\ gx \in Points
    /\ gEps \in Epsilons
    /\ gradientAtX = <<>> /\ x_1 = <<>> /\ x_2 = <<>>
    /\ gi = 0 /\ gEval = <<>> /\ gResult = FALSE
    /\ gpc = "start"

\* func(x, gradientAtX); x_1 = x; x_2 = x;
GradStart ==
    /\ UNCHANGED <<tvars, kvars, dvars>>
    /\ gpc = "start"
    /\ gradientAtX' = FuncGradient(gFunc, gx)
    /\ x_1' = gx
    /\ x_2' = gx
    /\ gi' = 0
    /\ gpc' = "loop"
    /\ UNCHANGED <<gFunc, gx, gEps, gEval, gResult>>

Max(x, y) == IF x > y THEN x ELSE y

\* abs(v) on a scalar: <cmath> declares the floating overloads in std only, so
\* the unqualified call is int abs(int) and v is truncated toward zero (the
\* std::max(1, ...) around it takes int arguments only)
AbsInt(v) == (IF v < 0 THEN 0 - v ELSE v) \div Scale

\* (valueAtX2 - valueAtX1) / (2.0 * epsilon)
NumGrad(valueAtX1, valueAtX2, epsilon) == (valueAtX2 - valueAtX1) \div (2 * epsilon)

\* abs(numgrad - g) / std::max(1, std::max(abs(numgrad), abs(g))): a quotient of ints
RelDiff(numgrad, g) == AbsInt(numgrad - g) \div Max(1, Max(AbsInt(numgrad), AbsInt(g)))

\* reldiff > epsilon * 0.1, reldiff a whole number
Exceeds(reldiff, epsilon) == 10 * Scale * reldiff > epsilon

\* a loop body that leaves both perturbed copies as they are
GradIterateNoRestore ==
    /\ UNCHANGED <<tvars, kvars, dvars>>
    /\ gpc = "loop"
    /\ gi < Len(gx)
    /\ LET i == gi + 1
           p1 == [x_1 EXCEPT ![i] = gx[i] - gEps]
           p2 == [x_2 EXCEPT ![i] = gx[i] + gEps]
           numgrad == NumGrad(FuncValue(gFunc, p1), FuncValue(gFunc, p2), gEps)
           reldiff == RelDiff(numgrad, gradientAtX[i])
       IN  /\ gEval' = <<p1, p2>>
           /\ x_1' = p1
           /\ x_2' = p2
           /\ IF Exceeds(reldiff, gEps)
              THEN /\ gResult' = FALSE
                   /\ gpc' = "done"
                   /\ gi' = gi
              ELSE /\ gi' = gi + 1
                   /\ UNCHANGED <<gResult, gpc>>
    /\ UNCHANGED <<gFunc, gx, gEps, gradientAtX>>

\* the body of for(int i = 0; i < x.size(); ++i)
GradIterate ==
    /\ UNCHANGED <<tvars, kvars, dvars>>
    /\ gpc = "loop"
    /\ gi < Len(gx)
    /\ LET i == gi + 1
           p1 == [x_1 EXCEPT ![i] = gx[i] - gEps]
           p2 == [x_2 EXCEPT ![i] = gx[i] + gEps]
           numgrad == NumGrad(FuncValue(gFunc, p1), FuncValue(gFunc, p2), gEps)
           reldiff == RelDiff(numgrad, gradientAtX[i])
       IN  /\ gEval' = <<p1, p2>>
           /\ IF Exceeds(reldiff, gEps)
              THEN /\ gResult' = FALSE
                   /\ gpc' = "done"
                   /\ x_1' = p1
                   /\ x_2' = p2
                   /\ gi' = gi
              ELSE /\ x_1' = [p1 EXCEPT ![i] = gx[i]]
                   /\ x_2' = [p2 EXCEPT ![i] = gx[i]]
                   /\ gi' = gi + 1
                   /\ UNCHANGED <<gResult, gpc>>
    /\ UNCHANGED <<gFunc, gx, gEps, gradientAtX>>

\* return true;
GradReturnTrue ==
    /\ UNCHANGED <<tvars, kvars, dvars>>
    /\ gpc = "loop"
    /\ gi >= Len(gx)
    /\ gResult' = TRUE
    /\ gpc' = "done"
    /\ UNCHANGED <<gFunc, gx, gEps, gradientAtX, x_1, x_2, gi, gEval>>

GradNext ==
    \/ GradStart
    \/ GradIterate
    \/ GradReturnTrue

(***************************************************************************)
(* The specifications                                                      *)
(***************************************************************************)
InitTensors == TensorInit /\ KernelIdle /\ DescIdle /\ GradIdle
InitKernel == TensorIdle /\ KernelInit /\ DescIdle /\ GradIdle
InitDesc == TensorIdle /\ KernelIdle /\ DescInit /\ GradIdle
InitGrad == TensorIdle /\ KernelIdle /\ DescIdle /\ GradInit

\* tensors and their operations
Spec == InitTensors /\ [][TensorNext]_vars

\* one call of crossEntropyCUDAKernel
SpecKernel == InitKernel /\ [][KernelNext]_vars

\* one call of updateGPUTensorDescriptor
SpecDesc == InitDesc /\ [][DescNext]_vars

\* one call of gradientCheck
SpecGrad == InitGrad /\ [][GradNext]_vars

(***************************************************************************)
(* Properties of the tensor                                                *)
(***************************************************************************)
\* the step just taken was the operation op
Did(op) == nops' # nops /\ last'.op = op

\* the storage t reads through is there and holds index i
Readable(t, i) ==
    /\ m_data[t] # NullHandle
    /\ heap[m_data[t]].refs > 0
    /\ i < Len(heap[m_data[t]].host)

\* C1: on the accelerator target, after every shape mutation (a successful
\* reshape, an assignment, a copy-construction) the descriptor the tensor holds
\* is the descriptor computed from its current shape.
C1_DescriptorDescribesShape ==
    (IsGPU /\ (last.op \in {"assign", "copy"} \/ (last.op = "reshape" /\ last.ret)))
        => m_gpuTensorDescriptor[last.t] = ComputedDescriptor(m_shape[last.t])

\* C3: reshape returns true exactly when the new size equals the current size;
\* a failed reshape leaves the shape as it was (a successful one installs the new
\* shape), and a reshape that follows a failed one succeeds whenever its shape
\* has the original element count.
C3_Reshape ==
    [][Did("reshape") =>
        LET t == last'.t
        IN  /\ last'.ret <=> (ShapeSize(last'.shape) = ShapeSize(m_shape[t]))
            /\ ~last'.ret => m_shape'[t] = m_shape[t]
            /\ last'.ret => m_shape'[t] = last'.shape
            /\ (last.op = "reshape" /\ last.t = t /\ ~last.ret
                  /\ ShapeSize(last'.shape) = ShapeSize(last.preShape)) => last'.ret]_tvars

\* a reshape that failed, followed by one back to the original element count
C3_Witness ==
    /\ last.op = "reshape" /\ last.retry /\ last.ret
    /\ last.shape # last.preShape
    /\ ShapeSize(last.shape) > 0

\* C4: tensors made aliases by copy-construction or assignment from an
\* initialised tensor read the same value at every index, and a value written
\* through one of them is the value read through the other.
C4_AliasesAgree ==
    \A x, y \in Tensors : {x, y} \in linked /\ x # y =>
        /\ m_data[x] = m_data[y]
        /\ \A i \in 0..(ShapeSize(m_shape[x]) - 1) :
              Readable(x, i) /\ Readable(y, i) /\ Read(x, i) = Read(y, i)

C4_WriteSeen ==
    Did("write") =>
        \A y \in Tensors : {last'.t, y} \in linked' =>
            heap'[m_data'[y]].host[last'.idx + 1] = last'.val

\* C4: aliases made by copy-construction or assignment read the same values
\* at every index, and a write through one is read through the other.
C4_Aliasing == [](C4_AliasesAgree) /\ [][C4_WriteSeen]_tvars

\* a value written through one tensor is read through another that an
\* assignment aliased to it (unlike a copy-construction, an assignment leaves
\* both with the descriptor of the shape)
C4_Witness ==
    /\ last.op = "write"
    /\ \E y \in Tensors : /\ y # last.t /\ {last.t, y} \in linked
                          /\ m_gpuTensorDescriptor[y] = ComputedDescriptor(m_shape[y])
                          /\ m_gpuTensorDescriptor[last.t] = ComputedDescriptor(m_shape[last.t])
                          /\ Read(y, last.idx) = last.val
    /\ \E i \in 0..(ShapeSize(m_shape[last.t]) - 1) : Read(last.t, i) # last.val

\* the number of live tensors that hold block b
Owners(b) == Cardinality({t \in Tensors : alive[t] /\ m_data[t] = b})

\* C5: storage lives as long as an owner remains: every tensor that holds a
\* block holds a live one, a block is released exactly when no tensor holds it,
\* and clear() on (or destruction of) one tensor leaves the block and the
\* contents every other tensor reads through untouched.
C5_OwnedIsAlive ==
    /\ \A t \in Tensors : m_data[t] # NullHandle => alive[t] /\ heap[m_data[t]].refs > 0
    /\ \A b \in Blocks : heap[b].refs = Owners(b)
    /\ \A b \in Blocks : heap[b].refs = 0 => heap[b] = FreeBlock

C5_OthersKeepStorage ==
    (Did("clear") \/ Did("destroy")) =>
        \A y \in Tensors : (y # last'.t /\ m_data[y] # NullHandle) =>
            /\ m_data'[y] = m_data[y]
            /\ heap'[m_data[y]].refs > 0
            /\ heap'[m_data[y]].host = heap[m_data[y]].host
            /\ heap'[m_data[y]].gpu = heap[m_data[y]].gpu
            /\ heap'[m_data[y]].size = heap[m_data[y]].size

\* C5: clearing or destroying one owner neither releases nor alters the
\* storage the other owners read; storage is released only with its last owner.
C5_RefCounting == [](C5_OwnedIsAlive) /\ [][C5_OthersKeepStorage]_tvars

\* the source of a copy was cleared and the copy still reads its storage
C5_Witness ==
    /\ last.op = "clear" /\ last.preRefs = 2
    /\ m_data[last.t] = NullHandle
    /\ \E y \in Tensors : /\ y # last.t /\ m_data[y] # NullHandle
                          /\ heap[m_data[y]].refs = 1
                          /\ \E i \in 0..(ShapeSize(m_shape[y]) - 1) : Read(y, i) \in Values

\* C6: init() returns false exactly when the shape's size is 0 or the
\* allocation fails, and otherwise leaves a buffer of size() * elementSize
\* bytes; init(values) returns false when init() does, and then no block's
\* contents change (no copy, no push).
C6_InitResult ==
    last.op \in {"init", "initList"} =>
        LET t == last.t
            size == ShapeSize(m_shape[t])
        IN  /\ ~last.ret <=> (size = 0 \/ ~last.allocOk)
            /\ last.ret => /\ m_data[t] # NullHandle
                           /\ heap[m_data[t]].refs = 1
                           /\ heap[m_data[t]].size = size * ElemSize
                           /\ Len(heap[m_data[t]].host) = size

C6_FailedInitCopiesNothing ==
    (Did("initList") /\ ~last'.ret) =>
        \A b \in Blocks : \/ heap'[b] = FreeBlock
                          \/ /\ heap'[b].host = heap[b].host
                             /\ heap'[b].gpu = heap[b].gpu

\* C6: init() returns false exactly on size 0 or a failed allocation, and a
\* failed init(values) copies nothing and pushes nothing to the device.
C6_Init == [](C6_InitResult) /\ [][C6_FailedInitCopiesNothing]_tvars

\* init(values) failed on a failed allocation while another tensor held data
C6_Witness ==
    /\ last.op = "initList" /\ ~last.ret /\ ~last.allocOk
    /\ ShapeSize(m_shape[last.t]) > 0 /\ Len(last.list) > 0
    /\ \E y \in Tensors : y # last.t /\ m_data[y] # NullHandle

\* C7: a successful init(values) copies exactly min(len(values), size())
\* elements: element i is values[i] below that count, nothing is written at or
\* beyond size(), and on a shortfall the elements from len(values) on are as the
\* allocator returned them.
C7_InitListCopies ==
    (last.op = "initList" /\ last.ret) =>
        LET t == last.t
            size == ShapeSize(m_shape[t])
            host == heap[m_data[t]].host
            n == IF Len(last.list) < size THEN Len(last.list) ELSE size
        IN  /\ Len(host) = size
            /\ ~oob
            /\ \A k \in 1..size : host[k] = IF k <= n THEN last.list[k] ELSE Junk

\* init(values) was given more values than the tensor has elements
C7_Witness ==
    /\ last.op = "initList" /\ last.ret
    /\ Len(last.list) > ShapeSize(m_shape[last.t])

\* C12: on the accelerator target the device mirror equals the host mirror
\* when a successful init(values) returns and when randomize() returns.
C12_MirrorsAgree ==
    (IsGPU /\ ((last.op = "initList" /\ last.ret) \/ last.op = "randomize")) =>
        /\ m_data[last.t] # NullHandle
        /\ heap[m_data[last.t]].gpu = heap[m_data[last.t]].host

\* a write through operator[] changes the host mirror only; the device mirror
\* takes the host's contents when copyFromHostToDevice is called
C12_WriteIsHostOnly ==
    /\ Did("write") =>
          /\ heap'[m_data[last'.t]].gpu = heap[m_data[last'.t]].gpu
          /\ heap'[m_data[last'.t]].host[last'.idx + 1] = last'.val
    /\ Did("push") =>
          /\ heap'[m_data[last'.t]].gpu = heap[m_data[last'.t]].host
          /\ heap'[m_data[last'.t]].host = heap[m_data[last'.t]].host

\* C12: init(values) and randomize() leave the device mirror equal to the host
\* mirror; a write through operator[] leaves the device mirror as it was
\* until copyFromHostToDevice is called.
C12_Mirrors == [](C12_MirrorsAgree) /\ [][C12_WriteIsHostOnly]_tvars

\* a write after a push: the host holds the new value, the device the old one
C12_Witness ==
    /\ IsGPU
    /\ last.op = "write"
    /\ heap[m_data[last.t]].host[last.idx + 1] = last.val
    /\ heap[m_data[last.t]].gpu[last.idx + 1] \in Values \ {last.val}

(***************************************************************************)
(* Properties of the cost kernel                                           *)
(***************************************************************************)
RECURSIVE SumTerms(_, _)
\* the sum of the terms of the flat positions in ps, from the caller's arrays
SumTerms(ps, b) ==
    IF ps = {} THEN 0
    ELSE LET p == CHOOSE x \in ps : TRUE
         IN  Term(label[p], input0[p]) + SumTerms(ps \ {p}, b)

PositionsOf(b) == {p \in 0..(labelSize * batchSize - 1) : p \div labelSize = b}

\* C2: no work-item reads input or label at a position outside
\* [0, labelSize*batchSize) or writes an output slot outside [0, batchSize).
C2_NoAccessOutside == ~oobRead /\ ~oobWrite

\* C10: once every work-item has finished, each output slot holds the sum of
\* the terms of exactly the flat positions of its batch element.
C10_ExactSums ==
    kpc = "done" => \A b \in 0..(batchSize - 1) : cost[b] = SumTerms(PositionsOf(b), b)

\* the flat positions of b whose work-item has run in this call
Ran(b) == IF kpc \in {"running", "done", "fault"} THEN PositionsOf(b) \ todo ELSE {}

C8_DescriptorLayout ==
    (dpc = "set" /\ Len(dShape) >= 1) =>
        LET n == Len(dShape)
            m == IF n > 4 THEN n ELSE 4
        IN  /\ DOMAIN dimA = 0..(m - 1)
            /\ DOMAIN strideA = 0..(m - 1)
            /\ \A i \in 0..(n - 1) :
                  /\ dimA[m - 1 - i] = dShape[i + 1]
                  /\ strideA[m - 1 - i] = Product(SubSeq(dShape, 1, i))
            /\ \A i \in n..(m - 1) :
                  /\ dimA[m - 1 - i] = 1
                  /\ strideA[m - 1 - i] = strideA[m - n]

\* a shape of three dimensions, padded to four, with strides that differ
C8_Witness ==
    /\ dpc = "set"
    /\ dShape = <<2, 1, 2>>
    /\ strideA = [k \in 0..3 |-> IF k = 3 THEN 1 ELSE 2]
    /\ dimA = [k \in 0..3 |-> IF k \in {1, 3} THEN 2 ELSE 1]

(***************************************************************************)
(* Properties of the gradient check                                        *)
(***************************************************************************)
Abs(v) == IF v < 0 THEN 0 - v ELSE v

\* (f(point + epsilon e_i) - f(point - epsilon e_i)) / (2 epsilon)
CentralDifference(f, pt, i, epsilon) ==
    (FuncValue(f, [pt EXCEPT ![i] = @ + epsilon]) - FuncValue(f, [pt EXCEPT ![i] = @ - epsilon]))
        \div (2 * epsilon)

\* |ng - ag| / max(1, |ng|, |ag|) <= epsilon * 0.1, in exact arithmetic
WithinTolerance(ng, ag, epsilon) ==
    10 * Scale * Abs(ng - ag) <= epsilon * Max(Scale, Max(Abs(ng), Abs(ag)))

\* C9: gradientCheck returns true exactly when the relative error of every
\* coordinate is at most epsilon * 0.1.
C9_TrueIffAllWithin ==
    gpc = "done" =>
        (gResult <=> \A i \in 1..Len(gx) :
                        WithinTolerance(CentralDifference(gFunc, gx, i, gEps),
                                        FuncGradient(gFunc, gx)[i], gEps))

\* the point x with coordinate i moved by d
Perturbed(x, i, d) == [x EXCEPT ![i] = x[i] + d]

\* C13: the two evaluations of func made for coordinate i are at the original
\* point with coordinate i alone moved by -epsilon and by +epsilon; between
\* iterations both working copies are the original point again.
C13_EvaluationsAt ==
    (gpc = "loop" /\ gi < Len(gx)) =>
        gEval' = <<Perturbed(gx, gi + 1, 0 - gEps), Perturbed(gx, gi + 1, gEps)>>

C13_LocalPerturbation ==
    [](gpc = "loop" => (x_1 = gx /\ x_2 = gx)) /\ [][C13_EvaluationsAt]_gvars

\* the last coordinate of a point of several coordinates has been evaluated,
\* after an earlier, non-zero coordinate was: only the last one is moved
C13_Witness ==
    /\ gpc = "loop" /\ gi = Len(gx) /\ gi > 1
    /\ gx[1] # 0
    /\ gEval = <<Perturbed(gx, gi, 0 - gEps), Perturbed(gx, gi, gEps)>>

\* C14: for every shape, the empty one included, every read and write of the
\* extent and stride arrays is at an index inside the array, and every stride
\* slot is written before it is read.
C14_InsideArrays == ~dOutside /\ ~dUnwritten

\* C15: a tensor whose buffer is allocated has a buffer of exactly
\* size() * elementSize bytes, holding size() elements, so that no randomize()
\* and no operator[] with an index below size() has gone outside the storage.
C15_BufferFitsShape ==
    /\ \A t \in Tensors : (alive[t] /\ m_data[t] # NullHandle) =>
          /\ SizeInByte(t) = ShapeSize(m_shape[t]) * ElemSize
          /\ Len(heap[m_data[t]].host) = ShapeSize(m_shape[t])
    /\ ~oob

\* randomize() filled every element of a tensor of several elements that
\* shares its buffer with another tensor
C15_Witness ==
    /\ last.op = "randomize"
    /\ ShapeSize(m_shape[last.t]) > 1
    /\ \E y \in Tensors : y # last.t /\ alive[y] /\ m_data[y] = m_data[last.t]
    /\ \A k \in 1..ShapeSize(m_shape[last.t]) : heap[m_data[last.t]].host[k] \in Values

\* C16: a reshape, successful or not, changes nothing but the shape and the
\* descriptor of the tensor it is called on: every buffer keeps its contents
\* and its byte size, every tensor its name and its buffer, and every other
\* tensor, one that shares the buffer included, its shape and descriptor.
C16_ReshapeFrame ==
    [][Did("reshape") =>
          /\ heap' = heap
          /\ m_data' = m_data
          /\ m_name' = m_name
          /\ alive' = alive
          /\ \A y \in Tensors \ {last'.t} :
                /\ m_shape'[y] = m_shape[y]
                /\ m_gpuTensorDescriptor'[y] = m_gpuTensorDescriptor[y]]_tvars

\* a successful reshape of a tensor whose buffer another tensor shares: the
\* two now have different shapes over the same, initialised buffer
C16_Witness ==
    /\ last.op = "reshape" /\ last.ret /\ last.shape # last.preShape
    /\ \E y \in Tensors : /\ y # last.t /\ alive[y]
                          /\ m_data[y] # NullHandle /\ m_data[y] = m_data[last.t]
                          /\ m_shape[y] = last.preShape
                          /\ m_shape[last.t] = last.shape

====
